---------------------------- MODULE Spec2Model ----------------------------
(***************************************************************************)
(* A model of the Starlark tokenizer and load-statement parser of          *)
(* robinlinden/ffs (src/starlark/token.h, tokenizer.h, parser.h).          *)
(*                                                                         *)
(* Text is a sequence of characters, each character a one-character        *)
(* string.  The cursor pos_ is 0-based as in the source, so the character  *)
(* input_[i] of the source is input[i + 1] here.                           *)
(***************************************************************************)
EXTENDS Naturals, Sequences, FiniteSets, TLC

VARIABLES
    origin,       \* how the text was put together
    input,        \* the text handed to the entry point (std::string_view)
    mode,         \* which entry point this behaviour drives
    pc,           \* control location inside the running entry point
    pos,          \* Tokenizer::pos_
    prev,         \* pos_ when the latest Tokenizer::tokenize() call began
    last,         \* the result of the latest Tokenizer::tokenize() call
    calls,        \* number of Tokenizer::tokenize() calls made so far
    tokens,       \* tokenize(): the local vector `tokens`
    program,      \* Parser::parse(): the local `program.statements`
    module_name,  \* parse_load_stmt(): the local `module_name`
    symbols,      \* parse_load_stmt(): the local `symbols`
    ident,        \* parse_load_stmt(): the local `ident`
    ret,          \* the value the entry point returned
    out,          \* the string a to_string of a token sequence built
    other         \* a second Tokenizer instance: its input_ and pos_

vars == <<origin, input, mode, pc, pos, prev, last, calls, tokens, program, module_name,
          symbols, ident, ret, out, other>>

(***************************************************************************)
(* Bounds of the model.                                                    *)
(***************************************************************************)
MaxLen == 4
MaxStmts == 2
MaxSyms == 2
MaxEntries == 3
MaxCalls == 6
MaxBody == 3
MaxQuoteLen == 7

Min(a, b) == IF a < b THEN a ELSE b

(***************************************************************************)
(* token.h: the token variants.                                            *)
(***************************************************************************)
Punctuator(p) == [kind |-> "Punctuator", punctuator |-> p]
Keyword(k) == [kind |-> "Keyword", keyword |-> k]
Identifier(n) == [kind |-> "Identifier", name |-> n]
StringLiteral(s) == [kind |-> "StringLiteral", value |-> s]
Eof == [kind |-> "Eof"]
\* std::nullopt, the failure outcome of every std::optional result.
Nullopt == [kind |-> "nullopt"]

(***************************************************************************)
(* std::string_view::size and substr(pos, n), the latter clipped at the    *)
(* end of the text.                                                        *)
(***************************************************************************)
size(s) == Len(s)
substr(s, p, n) == SubSeq(s, p + 1, Min(p + n, Len(s)))

\* The raw string literal R"(""")".
TripleQuote == <<"\"", "\"", "\"">>

Lower == {"a", "b", "c", "d", "e", "f", "g", "h", "i", "j", "k", "l", "m",
          "n", "o", "p", "q", "r", "s", "t", "u", "v", "w", "x", "y", "z"}
Upper == {"A", "B", "C", "D", "E", "F", "G", "H", "I", "J", "K", "L", "M",
          "N", "O", "P", "Q", "R", "S", "T", "U", "V", "W", "X", "Y", "Z"}

is_whitespace(c) == c = " " \/ c = "\t" \/ c = "\n" \/ c = "\r"
is_alpha(c) == c \in Lower \/ c \in Upper \/ c = "_"
is_digit(c) == c \in {"0", "1", "2", "3", "4", "5", "6", "7", "8", "9"}

(***************************************************************************)
(* Tokenizer::skip_comments_and_whitespace.  SkipWhitespace and            *)
(* SkipToNewline are its two inner while loops; the outer loop repeats as  *)
(* long as a comment was skipped.                                          *)
(***************************************************************************)
RECURSIVE SkipWhitespace(_, _)
SkipWhitespace(s, p) ==
    IF p < size(s) /\ is_whitespace(s[p + 1])
    THEN SkipWhitespace(s, p + 1)
    ELSE p

RECURSIVE SkipToNewline(_, _)
SkipToNewline(s, p) ==
    IF p < size(s) /\ s[p + 1] # "\n"
    THEN SkipToNewline(s, p + 1)
    ELSE p

\* A skip that stops after the first comment.
skip_comments_and_whitespace_Once(s, p) ==
    LET q == SkipWhitespace(s, p)
    IN  IF q < size(s) /\ s[q + 1] = "#" THEN SkipToNewline(s, q) ELSE q

RECURSIVE skip_comments_and_whitespace(_, _)
skip_comments_and_whitespace(s, p) ==
    LET q == SkipWhitespace(s, p)
    IN  IF q < size(s) /\ s[q + 1] = "#"
        THEN skip_comments_and_whitespace(s, SkipToNewline(s, q))
        ELSE q

(***************************************************************************)
(* Every tokenize_* operator takes the text and the cursor and gives the   *)
(* returned std::optional<Token> with the cursor the call leaves behind.   *)
(***************************************************************************)
Result(t, p) == [tok |-> t, pos |-> p]

\* Tokenizer::tokenize_multiline_string: its while loop, from cursor p.
RECURSIVE ScanTripleQuote(_, _)
ScanTripleQuote(s, p) ==
    IF p + 2 < size(s) /\ substr(s, p, 3) # TripleQuote
    THEN ScanTripleQuote(s, p + 1)
    ELSE p

tokenize_multiline_string(s, p) ==
    LET start == p + 3
        q == ScanTripleQuote(s, start)
    IN  IF q + 2 >= size(s)
        THEN Result(Nullopt, q)
        ELSE Result(StringLiteral(substr(s, start, q - start)), q + 3)

\* A string scan that takes a backslash and the character after it
\* together, so that an escaped quote does not end the string.
RECURSIVE ScanQuote_Escapes(_, _)
ScanQuote_Escapes(s, p) ==
    IF p + 1 < size(s) /\ s[p + 1] = "\\"
    THEN ScanQuote_Escapes(s, p + 2)
    ELSE IF p < size(s) /\ s[p + 1] # "\""
    THEN ScanQuote_Escapes(s, p + 1)
    ELSE p

\* Tokenizer::tokenize_string: its while loop, from cursor p.
RECURSIVE ScanQuote(_, _)
ScanQuote(s, p) ==
    IF p < size(s) /\ s[p + 1] # "\""
    THEN ScanQuote(s, p + 1)
    ELSE p

\* A tokenize_string that steps over the closing quote before it tests for
\* the end of the text.
tokenize_string_StepsOver(s, p) ==
    LET start == p + 1
        q == ScanQuote(s, start)
    IN  IF q >= size(s)
        THEN Result(Nullopt, q + 1)
        ELSE Result(StringLiteral(substr(s, start, q - start)), q + 1)

\* A tokenize_string that takes the end of the text for the closing quote.
tokenize_string_Lenient(s, p) ==
    LET start == p + 1
        q == ScanQuote(s, start)
    IN  IF q >= size(s)
        THEN Result(StringLiteral(substr(s, start, q - start)), q)
        ELSE Result(StringLiteral(substr(s, start, q - start)), q + 1)

tokenize_string(s, p) ==
    LET start == p + 1
        q == ScanQuote(s, start)
    IN  IF q >= size(s)
        THEN Result(Nullopt, q)
        ELSE Result(StringLiteral(substr(s, start, q - start)), q + 1)

\* An identifier scan that stops at a digit.
RECURSIVE ScanIdentifier_NoDigits(_, _)
ScanIdentifier_NoDigits(s, p) ==
    IF p < size(s) /\ is_alpha(s[p + 1])
    THEN ScanIdentifier_NoDigits(s, p + 1)
    ELSE p

\* Tokenizer::tokenize_identifier: its while loop, from cursor p.
RECURSIVE ScanIdentifier(_, _)
ScanIdentifier(s, p) ==
    IF p < size(s) /\ (is_alpha(s[p + 1]) \/ is_digit(s[p + 1]))
    THEN ScanIdentifier(s, p + 1)
    ELSE p

\* The chain of `if (name == "...") return token::Keyword::...` in order.
KeywordOf(name) ==
    CASE name = <<"a", "n", "d">> -> Keyword("And")
      [] name = <<"e", "l", "s", "e">> -> Keyword("Else")
      [] name = <<"l", "o", "a", "d">> -> Keyword("Load")
      [] name = <<"b", "r", "e", "a", "k">> -> Keyword("Break")
      [] name = <<"f", "o", "r">> -> Keyword("For")
      [] name = <<"n", "o", "t">> -> Keyword("Not")
      [] name = <<"c", "o", "n", "t", "i", "n", "u", "e">> -> Keyword("Continue")
      [] name = <<"i", "f">> -> Keyword("If")
      [] name = <<"o", "r">> -> Keyword("Or")
      [] name = <<"d", "e", "f">> -> Keyword("Def")
      [] name = <<"i", "n">> -> Keyword("In")
      [] name = <<"p", "a", "s", "s">> -> Keyword("Pass")
      [] name = <<"e", "l", "i", "f">> -> Keyword("Elif")
      [] name = <<"l", "a", "m", "b", "d", "a">> -> Keyword("Lambda")
      [] name = <<"r", "e", "t", "u", "r", "n">> -> Keyword("Return")
      [] OTHER -> Identifier(name)

\* A tokenize_identifier that leaves the cursor where the word starts.
tokenize_identifier_NoAdvance(s, p) ==
    LET q == ScanIdentifier(s, p)
    IN  Result(KeywordOf(substr(s, p, q - p)), p)

tokenize_identifier(s, p) ==
    LET q == ScanIdentifier(s, p)
    IN  Result(KeywordOf(substr(s, p, q - p)), q)

(***************************************************************************)
(* Tokenizer::tokenize_punctuator.  kPunctuatorsInit is the array handed   *)
(* to std::to_array, in source order; kPunctuators is that array as        *)
(* std::ranges::sort leaves it, longest spellings first.                   *)
(***************************************************************************)
Entry(str, p) == [str |-> str, punctuator |-> p]

kPunctuatorsInit ==
    << Entry(<<"+">>, "Plus"),
       Entry(<<"-">>, "Minus"),
       Entry(<<"*">>, "Star"),
       Entry(<<"/">>, "Slash"),
       Entry(<<"/", "/">>, "DoubleSlash"),
       Entry(<<"%">>, "Percent"),
       Entry(<<"*", "*">>, "DoubleStar"),
       Entry(<<"&">>, "Ampersand"),
       Entry(<<"|">>, "Pipe"),
       Entry(<<"^">>, "Caret"),
       Entry(<<"<", "<">>, "LShift"),
       Entry(<<">", ">">>, "RShift"),
       Entry(<<".">>, "Dot"),
       Entry(<<",">>, "Comma"),
       Entry(<<"=">>, "Equals"),
       Entry(<<";">>, "Semicolon"),
       Entry(<<":">>, "Colon"),
       Entry(<<"(">>, "LParen"),
       Entry(<<")">>, "RParen"),
       Entry(<<"[">>, "LBracket"),
       Entry(<<"]">>, "RBracket"),
       Entry(<<"{">>, "LBrace"),
       Entry(<<"}">>, "RBrace"),
       Entry(<<"<">>, "Less"),
       Entry(<<">">>, "Greater"),
       Entry(<<"=", "=">>, "EqualEqual"),
       Entry(<<"!", "=">>, "NotEqual"),
       Entry(<<"+", "=">>, "PlusEquals"),
       Entry(<<"-", "=">>, "MinusEquals"),
       Entry(<<"*", "=">>, "StarEquals"),
       Entry(<<"/", "=">>, "SlashEquals"),
       Entry(<<"%", "=">>, "PercentEquals"),
       Entry(<<"~">>, "Tilde"),
       Entry(<<"&", "=">>, "AmpersandEquals"),
       Entry(<<"|", "=">>, "PipeEquals"),
       Entry(<<"^", "=">>, "CaretEquals"),
       Entry(<<"<", "=">>, "LessOrEqual"),
       Entry(<<"<", "<", "=">>, "LShiftEquals"),
       Entry(<<">", "=">>, "GreaterOrEqual"),
       Entry(<<">", ">", "=">>, "RShiftEquals") >>

\* The longest spelling of the array.
RECURSIVE MaxSpelling(_, _)
MaxSpelling(t, i) ==
    IF i > Len(t) THEN 0
    ELSE LET m == MaxSpelling(t, i + 1)
         IN  IF Len(t[i].str) > m THEN Len(t[i].str) ELSE m

\* The entries of t whose spelling has length n, in the order of t.
OfLength(t, n) == SelectSeq(t, LAMBDA e : Len(e.str) = n)

(***************************************************************************)
(* std::ranges::sort(punctuators, comp, proj) as the standard library of   *)
(* the build (libstdc++, bits/stl_algo.h and bits/stl_heap.h) carries it   *)
(* out: introsort.  Iterators are offsets from begin(), 0-based; a is the  *)
(* array as a sequence, so *(begin() + i) is a[i + 1].  A loop whose test  *)
(* reads iterators only also names Len(a) there, which leaves the test's   *)
(* value as it is (a range of an empty array is empty) and has the array   *)
(* of one round evaluated before the next round starts.                    *)
(***************************************************************************)
\* The comparator applied to the projection &value_type::first:
\* a.size() > b.size().
comp(a, b) == Len(a.str) > Len(b.str)

\* std::iter_swap(begin() + i, begin() + j)
iter_swap(a, i, j) == [a EXCEPT ![i + 1] = a[j + 1], ![j + 1] = a[i + 1]]

\* std::__lg(n): the floor of the binary logarithm.
RECURSIVE lg(_)
lg(n) == IF n <= 1 THEN 0 ELSE 1 + lg(n \div 2)

\* std::__move_median_to_first(result, x, y, z, comp)
move_median_to_first(a, result, x, y, z) ==
    IF comp(a[x + 1], a[y + 1])
    THEN IF comp(a[y + 1], a[z + 1]) THEN iter_swap(a, result, y)
         ELSE IF comp(a[x + 1], a[z + 1]) THEN iter_swap(a, result, z)
         ELSE iter_swap(a, result, x)
    ELSE IF comp(a[x + 1], a[z + 1]) THEN iter_swap(a, result, x)
    ELSE IF comp(a[y + 1], a[z + 1]) THEN iter_swap(a, result, z)
    ELSE iter_swap(a, result, y)

\* std::__unguarded_partition: while (comp(first, pivot)) ++first;
RECURSIVE partition_up(_, _, _)
partition_up(a, first_, pivot) ==
    IF comp(a[first_ + 1], a[pivot + 1]) THEN partition_up(a, first_ + 1, pivot)
    ELSE first_

\* std::__unguarded_partition: while (comp(pivot, last)) --last;
RECURSIVE partition_down(_, _, _)
partition_down(a, last_, pivot) ==
    IF comp(a[pivot + 1], a[last_ + 1]) THEN partition_down(a, last_ - 1, pivot)
    ELSE last_

\* std::__unguarded_partition(first, last, pivot, comp): the array and the
\* returned iterator.
RECURSIVE unguarded_partition(_, _, _, _)
unguarded_partition(a, first_, last_, pivot) ==
    LET f == partition_up(a, first_, pivot)
        l == partition_down(a, last_ - 1, pivot)
    IN  IF ~(f < l) THEN [a |-> a, cut |-> f]
        ELSE unguarded_partition(iter_swap(a, f, l), f + 1, l, pivot)

\* std::__unguarded_partition_pivot(first, last, comp)
unguarded_partition_pivot(a, first_, last_) ==
    LET mid == first_ + (last_ - first_) \div 2
    IN  unguarded_partition(
            move_median_to_first(a, first_, first_ + 1, mid, last_ - 1),
            first_ + 1, last_, first_)

\* std::__push_heap(first, holeIndex, topIndex, value, comp)
RECURSIVE push_heap(_, _, _, _, _)
push_heap(a, first_, holeIndex, topIndex, value) ==
    IF holeIndex > topIndex /\ comp(a[first_ + (holeIndex - 1) \div 2 + 1], value)
    THEN push_heap([a EXCEPT ![first_ + holeIndex + 1] =
                                 a[first_ + (holeIndex - 1) \div 2 + 1]],
                   first_, (holeIndex - 1) \div 2, topIndex, value)
    ELSE [a EXCEPT ![first_ + holeIndex + 1] = value]

\* std::__adjust_heap: its while loop; the array, holeIndex and secondChild
\* it ends with.
RECURSIVE adjust_heap_down(_, _, _, _, _)
adjust_heap_down(a, first_, holeIndex, secondChild, len) ==
    IF secondChild < (len - 1) \div 2
    THEN LET c == 2 * (secondChild + 1)
             d == IF comp(a[first_ + c + 1], a[first_ + (c - 1) + 1]) THEN c - 1 ELSE c
         IN  adjust_heap_down([a EXCEPT ![first_ + holeIndex + 1] = a[first_ + d + 1]],
                              first_, d, d, len)
    ELSE [a |-> a, holeIndex |-> holeIndex, secondChild |-> secondChild]

\* std::__adjust_heap(first, holeIndex, len, value, comp)
adjust_heap(a, first_, holeIndex, len, value) ==
    LET r == adjust_heap_down(a, first_, holeIndex, holeIndex, len)
    IN  IF len % 2 = 0 /\ r.secondChild = (len - 2) \div 2
        THEN LET c == 2 * (r.secondChild + 1)
             IN  push_heap([r.a EXCEPT ![first_ + r.holeIndex + 1] =
                                           r.a[first_ + (c - 1) + 1]],
                           first_, c - 1, holeIndex, value)
        ELSE push_heap(r.a, first_, r.holeIndex, holeIndex, value)

\* std::__make_heap(first, last, comp): its loop, from parent downwards.
RECURSIVE make_heap_from(_, _, _, _)
make_heap_from(a, first_, len, parent) ==
    LET b == adjust_heap(a, first_, parent, len, a[first_ + parent + 1])
    IN  IF parent = 0 \/ Len(b) = 0 THEN b ELSE make_heap_from(b, first_, len, parent - 1)

make_heap(a, first_, last_) ==
    IF last_ - first_ < 2 THEN a
    ELSE make_heap_from(a, first_, last_ - first_, (last_ - first_ - 2) \div 2)

\* std::__sort_heap(first, last, comp), each round a std::__pop_heap.
RECURSIVE sort_heap(_, _, _)
sort_heap(a, first_, last_) ==
    IF last_ - first_ > 1 /\ Len(a) > 1
    THEN LET value == a[(last_ - 1) + 1]
             b == [a EXCEPT ![(last_ - 1) + 1] = a[first_ + 1]]
         IN  sort_heap(adjust_heap(b, first_, 0, (last_ - 1) - first_, value),
                       first_, last_ - 1)
    ELSE a

\* std::__partial_sort(first, last, last, comp): heap sort of the range.
partial_sort(a, first_, last_) == sort_heap(make_heap(a, first_, last_), first_, last_)

\* std::__introsort_loop(first, last, depth_limit, comp)
RECURSIVE introsort_loop(_, _, _, _)
introsort_loop(a, first_, last_, depth_limit) ==
    IF last_ - first_ > 16
    THEN IF depth_limit = 0 THEN partial_sort(a, first_, last_)
         ELSE LET r == unguarded_partition_pivot(a, first_, last_)
              IN  introsort_loop(introsort_loop(r.a, r.cut, last_, depth_limit - 1),
                                 first_, r.cut, depth_limit - 1)
    ELSE a

\* std::__unguarded_linear_insert: value val, taken from the place `last`,
\* moves down past every entry it compares before.
RECURSIVE unguarded_linear_insert(_, _, _)
unguarded_linear_insert(a, last_, val) ==
    IF comp(val, a[(last_ - 1) + 1])
    THEN unguarded_linear_insert([a EXCEPT ![last_ + 1] = a[(last_ - 1) + 1]],
                                 last_ - 1, val)
    ELSE [a EXCEPT ![last_ + 1] = val]

\* std::move_backward(first, i, i + 1); *first = val
move_to_front(a, first_, i) ==
    SubSeq(a, 1, first_) \o << a[i + 1] >> \o SubSeq(a, first_ + 1, i)
        \o SubSeq(a, i + 2, Len(a))

\* std::__insertion_sort(first, last, comp): its loop, from i on.
RECURSIVE insertion_sort_from(_, _, _, _)
insertion_sort_from(a, first_, last_, i) ==
    IF i = last_ THEN a
    ELSE insertion_sort_from(
             IF comp(a[i + 1], a[first_ + 1])
             THEN move_to_front(a, first_, i)
             ELSE unguarded_linear_insert(a, i, a[i + 1]),
             first_, last_, i + 1)

insertion_sort(a, first_, last_) ==
    IF first_ = last_ THEN a ELSE insertion_sort_from(a, first_, last_, first_ + 1)

\* std::__unguarded_insertion_sort(first, last, comp)
RECURSIVE unguarded_insertion_sort(_, _, _)
unguarded_insertion_sort(a, first_, last_) ==
    IF first_ = last_ \/ Len(a) = 0 THEN a
    ELSE unguarded_insertion_sort(unguarded_linear_insert(a, first_, a[first_ + 1]),
                                  first_ + 1, last_)

\* std::__final_insertion_sort(first, last, comp)
final_insertion_sort(a, first_, last_) ==
    IF last_ - first_ > 16
    THEN unguarded_insertion_sort(insertion_sort(a, first_, first_ + 16),
                                  first_ + 16, last_)
    ELSE insertion_sort(a, first_, last_)

\* A table left in the order it was written in.
SortedTable_Unsorted(a) == a

\* A sort that puts the shortest spellings first.
RECURSIVE SortedTable_Ascending(_)
SortedTable_Ascending(a) ==
    IF a = << >> THEN << >>
    ELSE LET m == MaxSpelling(a, 1)
         IN  SortedTable_Ascending(SelectSeq(a, LAMBDA e : Len(e.str) # m))
                 \o OfLength(a, m)

\* std::ranges::sort applied to table a: std::__sort(first, last, comp).
SortedTable(a) ==
    IF a = << >> THEN a
    ELSE final_insertion_sort(introsort_loop(a, 0, Len(a), 2 * lg(Len(a))),
                              0, Len(a))

\* The table tokenize_punctuator walks: the array as the sort leaves it.
kPunctuators == SortedTable(kPunctuatorsInit)

(***************************************************************************)
(* std::ranges::sort is not a stable sort: the order in which it leaves    *)
(* spellings of one length is unspecified, and the one above is the order  *)
(* of this standard library.  Two more orders a sort may leave, used to    *)
(* compare the matching with: the order of the initializer within each     *)
(* length, and its reverse.                                                *)
(***************************************************************************)
\* The entries of t in descending order of spelling length, from length n
\* down, each length in the order of t.
RECURSIVE SortByLengthDesc(_, _)
SortByLengthDesc(t, n) ==
    IF n = 0 THEN << >>
    ELSE OfLength(t, n) \o SortByLengthDesc(t, n - 1)

Reversed(t) == [i \in 1..Len(t) |-> t[Len(t) + 1 - i]]

OtherTieOrders ==
    { SortByLengthDesc(kPunctuatorsInit, MaxSpelling(kPunctuatorsInit, 1)),
      SortByLengthDesc(Reversed(kPunctuatorsInit), MaxSpelling(kPunctuatorsInit, 1)) }

\* The range-for over kPunctuators, from entry i on: the first entry whose
\* spelling is at the cursor wins.
RECURSIVE MatchPunctuator(_, _, _, _)
MatchPunctuator(t, s, p, i) ==
    IF i > Len(t) THEN Result(Nullopt, p)
    ELSE IF substr(s, p, Len(t[i].str)) = t[i].str
         THEN Result(Punctuator(t[i].punctuator), p + Len(t[i].str))
         ELSE MatchPunctuator(t, s, p, i + 1)

\* A tokenize_punctuator that reports the end of the text when no spelling
\* matches.
tokenize_punctuator_EofOnNoMatch(s, p) ==
    LET r == MatchPunctuator(kPunctuators, s, p, 1)
    IN  IF r.tok = Nullopt THEN Result(Eof, p) ELSE r

\* A tokenize_punctuator that steps over the character no spelling matches.
tokenize_punctuator_StepsOver(s, p) ==
    LET r == MatchPunctuator(kPunctuators, s, p, 1)
    IN  IF r.tok = Nullopt THEN Result(Nullopt, p + 1) ELSE r

tokenize_punctuator(s, p) == MatchPunctuator(kPunctuators, s, p, 1)

(***************************************************************************)
(* Tokenizer::tokenize, one call with the cursor at p.                     *)
(***************************************************************************)
\* A tokenize without the test for three quotes.
Tokenizer_tokenize_NoTriple(s, p) ==
    LET q == skip_comments_and_whitespace(s, p)
    IN  IF q >= size(s) THEN Result(Eof, q)
        ELSE IF s[q + 1] = "\"" THEN tokenize_string(s, q)
        ELSE IF is_alpha(s[q + 1]) THEN tokenize_identifier(s, q)
        ELSE tokenize_punctuator(s, q)

\* A tokenize that puts the cursor back to the start of the text when it
\* returns Eof.
Tokenizer_tokenize_Rewinds(s, p) ==
    LET q == skip_comments_and_whitespace(s, p)
    IN  IF q >= size(s) THEN Result(Eof, 0)
        ELSE IF substr(s, q, 3) = TripleQuote THEN tokenize_multiline_string(s, q)
        ELSE IF s[q + 1] = "\"" THEN tokenize_string(s, q)
        ELSE IF is_alpha(s[q + 1]) THEN tokenize_identifier(s, q)
        ELSE tokenize_punctuator(s, q)

Tokenizer_tokenize(s, p) ==
    LET q == skip_comments_and_whitespace(s, p)
    IN  IF q >= size(s) THEN Result(Eof, q)
        ELSE IF substr(s, q, 3) = TripleQuote THEN tokenize_multiline_string(s, q)
        ELSE IF s[q + 1] = "\"" THEN tokenize_string(s, q)
        ELSE IF is_alpha(s[q + 1]) THEN tokenize_identifier(s, q)
        ELSE tokenize_punctuator(s, q)

(***************************************************************************)
(* The indices (0-based) of input_ one call of Tokenizer::tokenize reads,  *)
(* with the cursor at p when the call starts.                              *)
(***************************************************************************)
\* A loop `while (pos_ < size && test(input_[pos_])) ++pos_` that took the
\* cursor from a to e: it read every index before e, and e if the test for
\* the size let it.
ScanReads(s, a, e) == (a..(e - 1)) \cup (IF e < size(s) THEN {e} ELSE {})

\* input_.substr(p, n): the characters it hands out.
SubstrReads(s, p, n) == p..(Min(p + n, size(s)) - 1)

\* tokenize_multiline_string with the opening quotes at q: the windows of
\* three characters its loop compares.
MultilineReads(s, q) ==
    UNION {SubstrReads(s, k, 3) :
              k \in {j \in (q + 3)..ScanTripleQuote(s, q + 3) : j + 2 < size(s)}}

CallReads(s, p) ==
    LET q == skip_comments_and_whitespace(s, p)
    IN  ScanReads(s, p, q) \cup
        (IF q >= size(s) THEN {}
         ELSE IF substr(s, q, 3) = TripleQuote
         THEN SubstrReads(s, q, 3) \cup MultilineReads(s, q)
         ELSE IF s[q + 1] = "\""
         THEN SubstrReads(s, q, 3) \cup {q} \cup ScanReads(s, q + 1, ScanQuote(s, q + 1))
         ELSE IF is_alpha(s[q + 1])
         THEN SubstrReads(s, q, 3) \cup {q} \cup ScanReads(s, q, ScanIdentifier(s, q))
         ELSE SubstrReads(s, q, 3) \cup {q}
                 \cup SubstrReads(s, q, MaxSpelling(kPunctuatorsInit, 1)))

(***************************************************************************)
(* Values returned by the entry points.  NoReturn: the entry point has not *)
(* returned yet.  Value(v): a std::optional holding v.                     *)
(***************************************************************************)
NoReturn == [kind |-> "none"]
Value(v) == [kind |-> "value", value |-> v]

\* parser.h: struct LoadStmt; symbols holds (first, second) pairs.
LoadStmt(m, syms) == [module_name |-> m, symbols |-> syms]

(***************************************************************************)
(* token.h, to_string(Keyword): the spelling of every keyword.             *)
(***************************************************************************)
KeywordEntry(str, k) == [str |-> str, keyword |-> k]

KeywordSpellings ==
    << KeywordEntry(<<"a", "n", "d">>, "And"),
       KeywordEntry(<<"e", "l", "s", "e">>, "Else"),
       KeywordEntry(<<"l", "o", "a", "d">>, "Load"),
       KeywordEntry(<<"b", "r", "e", "a", "k">>, "Break"),
       KeywordEntry(<<"f", "o", "r">>, "For"),
       KeywordEntry(<<"n", "o", "t">>, "Not"),
       KeywordEntry(<<"c", "o", "n", "t", "i", "n", "u", "e">>, "Continue"),
       KeywordEntry(<<"i", "f">>, "If"),
       KeywordEntry(<<"o", "r">>, "Or"),
       KeywordEntry(<<"d", "e", "f">>, "Def"),
       KeywordEntry(<<"i", "n">>, "In"),
       KeywordEntry(<<"p", "a", "s", "s">>, "Pass"),
       KeywordEntry(<<"e", "l", "i", "f">>, "Elif"),
       KeywordEntry(<<"l", "a", "m", "b", "d", "a">>, "Lambda"),
       KeywordEntry(<<"r", "e", "t", "u", "r", "n">>, "Return") >>

(***************************************************************************)
(* token.h, to_string(Punctuator): the cases of the switch, in order, and  *)
(* the value returned after the switch.                                    *)
(***************************************************************************)
PunctuatorCases ==
    << Entry(<<"+">>, "Plus"),
       Entry(<<"-">>, "Minus"),
       Entry(<<"*">>, "Star"),
       Entry(<<"/">>, "Slash"),
       Entry(<<"/", "/">>, "DoubleSlash"),
       Entry(<<"%">>, "Percent"),
       Entry(<<"*", "*">>, "DoubleStar"),
       Entry(<<"~">>, "Tilde"),
       Entry(<<"&">>, "Ampersand"),
       Entry(<<"|">>, "Pipe"),
       Entry(<<"^">>, "Caret"),
       Entry(<<"<", "<">>, "LShift"),
       Entry(<<">", ">">>, "RShift"),
       Entry(<<".">>, "Dot"),
       Entry(<<",">>, "Comma"),
       Entry(<<"=">>, "Equals"),
       Entry(<<";">>, "Semicolon"),
       Entry(<<":">>, "Colon"),
       Entry(<<"(">>, "LParen"),
       Entry(<<")">>, "RParen"),
       Entry(<<"[">>, "LBracket"),
       Entry(<<"]">>, "RBracket"),
       Entry(<<"{">>, "LBrace"),
       Entry(<<"}">>, "RBrace"),
       Entry(<<"<">>, "Less"),
       Entry(<<">">>, "Greater"),
       Entry(<<">", "=">>, "GreaterOrEqual"),
       Entry(<<"<", "=">>, "LessOrEqual"),
       Entry(<<"=", "=">>, "EqualEqual"),
       Entry(<<"!", "=">>, "NotEqual"),
       Entry(<<"+", "=">>, "PlusEquals"),
       Entry(<<"-", "=">>, "MinusEquals"),
       Entry(<<"*", "=">>, "StarEquals"),
       Entry(<<"/", "=">>, "SlashEquals"),
       Entry(<<"/", "/", "=">>, "DoubleSlashEquals"),
       Entry(<<"%", "=">>, "PercentEquals"),
       Entry(<<"&", "=">>, "AmpersandEquals"),
       Entry(<<"|", "=">>, "PipeEquals"),
       Entry(<<"^", "=">>, "CaretEquals"),
       Entry(<<"<", "<", "=">>, "LShiftEquals"),
       Entry(<<">", ">", "=">>, "RShiftEquals") >>

Unknown == <<"<", "u", "n", "k", "n", "o", "w", "n", ">">>

\* The str of the first entry of table t whose field f is v, or Unknown.
RECURSIVE Lookup(_, _, _, _)
Lookup(t, f, v, i) ==
    IF i > Len(t) THEN Unknown
    ELSE IF t[i][f] = v THEN t[i].str
    ELSE Lookup(t, f, v, i + 1)

to_string_Punctuator(p) == Lookup(PunctuatorCases, "punctuator", p, 1)
to_string_Keyword(k) == Lookup(KeywordSpellings, "keyword", k, 1)
to_string_Identifier(id) == id.name

\* A to_string(StringLiteral) that leaves the quotes out.
to_string_StringLiteral_Bare(str) == str.value

\* std::format(R"("{}")", str.value)
to_string_StringLiteral(str) == <<"\"">> \o str.value \o <<"\"">>
to_string_Eof == <<"<", "e", "o", "f", ">">>

\* to_string(Token): std::visit over the alternatives.
to_string_Token(t) ==
    CASE t.kind = "Punctuator" -> to_string_Punctuator(t.punctuator)
      [] t.kind = "Keyword" -> to_string_Keyword(t.keyword)
      [] t.kind = "Identifier" -> to_string_Identifier(t)
      [] t.kind = "StringLiteral" -> to_string_StringLiteral(t)
      [] t.kind = "Eof" -> to_string_Eof

\* A to_string of a span that puts no space between the tokens.
RECURSIVE to_string_span_rest_Tight(_)
to_string_span_rest_Tight(toks) ==
    IF toks = << >> THEN << >>
    ELSE to_string_Token(Head(toks)) \o to_string_span_rest_Tight(Tail(toks))

\* tokenizer_test.cc, to_string(std::span<Token const>): the first token,
\* then every other token after a space.  It asserts a non-empty span.
RECURSIVE to_string_span_rest(_)
to_string_span_rest(toks) ==
    IF toks = << >> THEN << >>
    ELSE <<" ">> \o to_string_Token(Head(toks)) \o to_string_span_rest(Tail(toks))

to_string_span(toks) == to_string_Token(toks[1]) \o to_string_span_rest(Tail(toks))

\* ffs/main.cc, to_string(std::vector<Token> const &): every token and a
\* space after it.
RECURSIVE to_string_vector(_)
to_string_vector(toks) ==
    IF toks = << >> THEN << >>
    ELSE to_string_Token(Head(toks)) \o <<" ">> \o to_string_vector(Tail(toks))

(***************************************************************************)
(* The texts the entry points are run on.  Every text comes with its       *)
(* origin, a record telling how it was put together.                       *)
(*                                                                         *)
(*   "text"        every string over TextAlphabet of at most MaxLen chars  *)
(*   "punctuator"  one or two punctuator spellings                         *)
(*   "word"        a keyword spelling, as it is or slightly changed        *)
(*   "test"        the inputs of parser_test.cc and tokenizer_test.cc      *)
(*   "program"     load statements, the last one possibly edited           *)
(***************************************************************************)
RECURSIVE Flatten(_)
Flatten(ss) == IF ss = << >> THEN << >> ELSE Head(ss) \o Flatten(Tail(ss))

\* toks, each one preceded by sep, and sep again at the end.
RECURSIVE Join(_, _)
Join(toks, sep) ==
    IF toks = << >> THEN sep ELSE sep \o Head(toks) \o Join(Tail(toks), sep)

Nth(t, i) == t[((i - 1) % Len(t)) + 1]

TextAlphabet == {"\n", "#", "\"", "a", "1", "<"}

Texts == UNION {[1..n -> TextAlphabet] : n \in 0..MaxLen}

\* Texts of quotes and a letter, long enough for """a""" and """""".
QuoteAlphabet == {"\"", "a"}

QuoteTexts == UNION {[1..n -> QuoteAlphabet] : n \in 0..MaxQuoteLen}

\* Texts for two tokenizers at work side by side: a load statement, a text
\* of an identifier, a punctuator and a string, a text of a triple-quoted
\* string, a comment and a keyword, and an unterminated string.
PairTexts ==
    { <<"l", "o", "a", "d", "(", "\"", "m", "\"", ",", "\"", "a", "\"", ")">>,
      <<"a", " ", "<", "<", "=", "\"", "b", "\"">>,
      <<"\"", "\"", "\"", "x", "\"", "\"", "\"", " ", "#", "c", "\n", "i", "f">>,
      <<"+", "\"", "u">> }

\* Texts that open a string: a quote, then up to MaxBody characters among
\* them the backslash, the quote, the comment sign and the newline.
StringAlphabet == {"\\", "\"", "#", "\n", "a"}

StringTexts == {<<"\"">> \o b : b \in UNION {[1..n -> StringAlphabet] : n \in 0..MaxBody}}

\* Texts with a character that starts no token: '!' without '=', the
\* apostrophe, '$', '@' and the backslash, first or after other tokens.
StrayTexts ==
    { <<"!">>,
      <<"!", "a">>,
      <<"!", " ", "=">>,
      <<"a", "!", "=", "!">>,
      <<"'", "a", "'">>,
      <<"$">>,
      <<"@", "x">>,
      <<" ", "#", "c", "\n", "\\", "n">> }

PunctuatorSpellings ==
    {kPunctuatorsInit[i].str : i \in 1..Len(kPunctuatorsInit)}
      \cup {<<"/", "/", "=">>}

PunctuatorTexts ==
    PunctuatorSpellings \cup {a \o b : a, b \in PunctuatorSpellings}

UpperOf(c) ==
    CASE c = "a" -> "A" [] c = "b" -> "B" [] c = "c" -> "C" [] c = "d" -> "D"
      [] c = "e" -> "E" [] c = "f" -> "F" [] c = "i" -> "I" [] c = "l" -> "L"
      [] c = "n" -> "N" [] c = "o" -> "O" [] c = "p" -> "P" [] c = "r" -> "R"
      [] OTHER -> c

WordVariants(w) ==
    { w,
      <<UpperOf(Head(w))>> \o Tail(w),
      w \o <<"x">>,
      w \o <<"1">>,
      w \o <<"_">>,
      <<"_">> \o w,
      SubSeq(w, 1, Len(w) - 1),
      w \o <<" ">> \o w,
      w \o <<"(">>,
      <<"#">> \o w \o <<"\n">> \o w,
      <<" ", "#", "x", "\n", "\t", "#", " ", "y", "\r", "\n">> \o w }

WordTexts == UNION {WordVariants(KeywordSpellings[i].str) : i \in 1..Len(KeywordSpellings)}

\* parser_test.cc, test_cases, and tokenizer_test.cc, kTestCases.
TestLoadTwo ==
    <<"l", "o", "a", "d", "(", "\"", "@", "r", "u", "l", "e", "s", "_", "c",
      "c", "/", "/", "c", "c", ":", "d", "e", "f", "s", ".", "b", "z", "l",
      "\"", ",", " ", "\"", "c", "c", "_", "l", "i", "b", "r", "a", "r", "y",
      "\"", ",", " ", "\"", "c", "c", "_", "t", "e", "s", "t", "\"", ")">>
TestLoadAlias ==
    <<"l", "o", "a", "d", "(", "\"", "@", "r", "u", "l", "e", "s", "_", "c",
      "c", "/", "/", "c", "c", ":", "d", "e", "f", "s", ".", "b", "z", "l",
      "\"", ",", " ", "f", "o", "o", " ", "=", " ", "\"", "c", "c", "_", "l",
      "i", "b", "r", "a", "r", "y", "\"", ")">>
TestTexts == {TestLoadTwo, TestLoadAlias}

\* Token spellings the programs are made of.
T_load == <<"l", "o", "a", "d">>
T_lparen == <<"(">>
T_rparen == <<")">>
T_comma == <<",">>
T_equals == <<"=">>
Quoted(v) == <<"\"">> \o v \o <<"\"">>

ModuleNames == << <<"/", "m">>, <<"n", ".", "b">>, <<":", "o">>, <<"@", "p">> >>
ExportedNames == << <<"a">>, <<"b">>, <<"c", "_", "1">>, <<"d">> >>
LocalNames == << <<"x">>, <<"y", "2">>, <<"_", "z">>, <<"w">> >>

\* The shape of a load statement: for each symbol entry, whether it is
\* spelled "s" ("bare") or identifier = "s" ("alias").
Shapes == UNION {[1..k -> {"bare", "alias"}] : k \in 0..MaxSyms}
WellFormedShapes == {sh \in Shapes : Len(sh) >= 1}

\* The tokens of the i-th symbol entry, with the comma before it.
EntryTokens(i, kind) ==
    IF kind = "bare"
    THEN <<T_comma, Quoted(Nth(ExportedNames, i))>>
    ELSE <<T_comma, Nth(LocalNames, i), T_equals, Quoted(Nth(ExportedNames, i))>>

\* The tokens of the j-th statement of a program, of shape sh.
StmtTokens(j, sh) ==
    <<T_load, T_lparen, Quoted(Nth(ModuleNames, j))>>
      \o Flatten([i \in 1..Len(sh) |-> EntryTokens(i, sh[i])])
      \o <<T_rparen>>

\* What is put in the place of a token, or before it.
Replacements ==
    { T_lparen, T_rparen, T_comma, T_equals, T_load, <<"+">>, <<"@">>,
      <<"v">>, <<"f", "o", "r">>, Quoted(<<"s">>), <<"\"", "u">> }
Insertions == {T_comma, <<"p", "a", "s", "s">>}
KeywordTokens == {KeywordSpellings[i].str : i \in 1..Len(KeywordSpellings)}

NoEdit == [op |-> "none", at |-> 0, with |-> << >>]

\* The edits of a statement of n tokens.
Edits(n) ==
    {[op |-> "delete", at |-> i, with |-> << >>] : i \in 1..n}
      \cup {[op |-> "truncate", at |-> i, with |-> << >>] : i \in 1..n}
      \cup {[op |-> "replace", at |-> i, with |-> t] : i \in 1..n, t \in Replacements}
      \cup {[op |-> "replace", at |-> 1, with |-> t] : t \in KeywordTokens}
      \cup {[op |-> "insert", at |-> i, with |-> t] : i \in 1..n, t \in Insertions}

Edited(toks, e) ==
    CASE e.op = "delete" ->
             SubSeq(toks, 1, e.at - 1) \o SubSeq(toks, e.at + 1, Len(toks))
      [] e.op = "truncate" -> SubSeq(toks, 1, e.at - 1)
      [] e.op = "replace" ->
             SubSeq(toks, 1, e.at - 1) \o <<e.with>> \o SubSeq(toks, e.at + 1, Len(toks))
      [] e.op = "insert" ->
             SubSeq(toks, 1, e.at - 1) \o <<e.with>> \o SubSeq(toks, e.at, Len(toks))
      [] OTHER -> toks

\* What separates the tokens of a program.
Separators == << << >>, <<" ">>, <<"\t", "#", ")", "\"", "\r", "\n">> >>

Program(shapes, edit, sep) ==
    [family |-> "program", shapes |-> shapes, edit |-> edit, sep |-> sep]

\* The number of symbol entries of the statements from the j-th on.
RECURSIVE Entries(_, _)
Entries(shs, j) == IF j > Len(shs) THEN 0 ELSE Len(shs[j]) + Entries(shs, j + 1)

\* Programs of up to MaxStmts well-formed statements with at most
\* MaxEntries symbol entries in all.
WellFormedPrograms ==
    {Program(shs, NoEdit, sep) :
        shs \in {x \in UNION {[1..n -> WellFormedShapes] : n \in 0..MaxStmts} :
                    Entries(x, 1) <= MaxEntries},
        sep \in 1..Len(Separators)}

\* No statement or MaxStmts - 1 one-symbol statements, then a statement of
\* any shape with one edit, or with no symbol at all.
EditedPrograms ==
    UNION {
      {Program([j \in 1..n |-> IF j < n THEN <<"bare">> ELSE sh], e, sep) :
          e \in IF Len(sh) = 0
                THEN Edits(Len(StmtTokens(n, sh))) \cup {NoEdit}
                ELSE Edits(Len(StmtTokens(n, sh))),
          sep \in {1, Len(Separators)}} :
      n \in {1, MaxStmts}, sh \in Shapes }

\* The tokens of a program: every statement but the last as it is, the
\* last one edited.
ProgramTokens(o) ==
    LET n == Len(o.shapes)
    IN  Flatten([j \in 1..n |->
             IF j < n THEN StmtTokens(j, o.shapes[j])
             ELSE Edited(StmtTokens(j, o.shapes[j]), o.edit)])

TextOf(o) ==
    IF o.family = "program"
    THEN Join(ProgramTokens(o), Separators[o.sep])
    ELSE o.text

Plain(family, texts) == {[family |-> family, text |-> t] : t \in texts}

Origins ==
    Plain("text", Texts) \cup Plain("punctuator", PunctuatorTexts)
      \cup Plain("word", WordTexts) \cup Plain("test", TestTexts)
      \cup Plain("quote", QuoteTexts) \cup Plain("pair", PairTexts)
      \cup Plain("string", StringTexts) \cup Plain("stray", StrayTexts)
      \cup WellFormedPrograms \cup EditedPrograms

Modes == {"Tokenizer", "tokenize", "parse"}

\* No token sequence was rendered yet.
NoOutput == [by |-> "none"]
\* No second Tokenizer was constructed.
NoOther == [input |-> << >>, pos |-> 0, last |-> Nullopt, calls |-> 0, live |-> FALSE]
\* A second Tokenizer constructed over text b: its pos_ is 0.
OtherOver(b) == [input |-> b, pos |-> 0, last |-> Nullopt, calls |-> 0, live |-> TRUE]

Init ==
    /\ origin \in Origins
    /\ input = TextOf(origin)
    /\ mode \in IF origin.family = "program" THEN {"tokenize", "parse"} ELSE Modes
    /\ pc = IF mode = "Tokenizer" THEN "call"
            ELSE IF mode = "tokenize" THEN "loop" ELSE "parse"
    /\ pos = 0
    /\ prev = 0
    /\ last = Nullopt
    /\ calls = 0
    /\ tokens = << >>
    /\ program = << >>
    /\ module_name = Nullopt
    /\ symbols = << >>
    /\ ident = Nullopt
    /\ ret = NoReturn
    /\ out = NoOutput
    /\ other \in IF origin.family = "pair"
                  THEN {OtherOver(b) : b \in PairTexts}
                  ELSE {NoOther}

(***************************************************************************)
(* A caller of the Tokenizer class calls tokenize() once more, whatever    *)
(* the earlier calls returned.                                             *)
(***************************************************************************)
Tokenizer_call ==
    /\ mode = "Tokenizer"
    /\ pc = "call"
    /\ calls < MaxCalls
    /\ \E r \in {Tokenizer_tokenize(input, pos)} :
         /\ pos' = r.pos
         /\ last' = r.tok
    /\ prev' = pos
    /\ calls' = calls + 1
    /\ UNCHANGED <<origin, input, mode, pc, tokens, program, module_name, symbols,
                   ident, ret, out, other>>

(***************************************************************************)
(* tokenize(input), the free function: one iteration of its while (true)   *)
(* loop.  What the iteration does with the token it got:                   *)
(***************************************************************************)
\* A tokenize() that hands out what it collected when the tokenizer fails.
TokenizeOnFailure_Partial(toks) == Value(toks)

\* the value returned when the token is std::nullopt
TokenizeOnFailure(toks) == Nullopt
\* the value returned when the token is Eof
TokenizeOnEof(toks) == Value(toks)
\* the vector after tokens.push_back(token)
TokenizePush(toks, t) == Append(toks, t)

tokenize_loop ==
    /\ mode = "tokenize"
    /\ pc = "loop"
    /\ \E r \in {Tokenizer_tokenize(input, pos)} :
         /\ pos' = r.pos
         /\ last' = r.tok
         /\ IF r.tok = Nullopt
            THEN /\ ret' = TokenizeOnFailure(tokens)
                 /\ tokens' = << >>
                 /\ pc' = "done"
            ELSE IF r.tok = Eof
            THEN /\ ret' = TokenizeOnEof(tokens)
                 /\ tokens' = << >>
                 /\ pc' = "done"
            ELSE /\ tokens' = TokenizePush(tokens, r.tok)
                 /\ UNCHANGED <<ret, pc>>
    /\ prev' = pos
    /\ calls' = calls + 1
    /\ UNCHANGED <<origin, input, mode, program, module_name, symbols, ident,
                   out, other>>

(***************************************************************************)
(* Parser.  Every action is one tokenizer_.tokenize() call of              *)
(* Parser::parse or Parser::parse_load_stmt together with the code that    *)
(* handles the token, up to the next tokenize() call or the return.        *)
(***************************************************************************)
\* Parser::parse returns v; its locals and those of parse_load_stmt die.
ParseReturn(v) ==
    /\ ret' = v
    /\ pc' = "done"
    /\ program' = << >>
    /\ module_name' = Nullopt
    /\ symbols' = << >>
    /\ ident' = Nullopt

\* A parse that returns the statements parsed before the error.
ParseFail_Partial == ParseReturn(Value(program))

\* parse_load_stmt returned std::nullopt: parse returns std::nullopt.
ParseFail == ParseReturn(Nullopt)

\* The tokenizer_.tokenize() call every parser action starts with.
ParserFetch(r) ==
    /\ mode = "parse"
    /\ pos' = r.pos
    /\ prev' = pos
    /\ last' = r.tok
    /\ calls' = calls + 1
    /\ UNCHANGED <<origin, input, mode, tokens, out, other>>

\* A parse whose `break` on another keyword leads to `return program`.
ParseDispatch_KeywordEnds(t) ==
    IF t = Nullopt THEN "fail"
    ELSE IF t = Eof THEN "return"
    ELSE IF t.kind = "Keyword"
         THEN IF t.keyword = "Load" THEN "load" ELSE "return"
         ELSE "fail"

\* A parse that ends the program at a token that is no keyword.
ParseDispatch_OthersEnd(t) ==
    IF t = Nullopt THEN "fail"
    ELSE IF t = Eof THEN "return"
    ELSE IF t.kind = "Keyword"
         THEN IF t.keyword = "Load" THEN "load" ELSE "fail"
         ELSE "return"

\* What Parser::parse does with the token at statement start:
\* "return" (the program), "load" (parse_load_stmt) or "fail".
ParseDispatch(t) ==
    IF t = Nullopt THEN "fail"
    ELSE IF t = Eof THEN "return"
    ELSE IF t.kind = "Keyword"
         THEN IF t.keyword = "Load" THEN "load" ELSE "fail"
         ELSE "fail"

\* Parser::parse: the loop head and the dispatch on the token.
parse_loop ==
    /\ pc = "parse"
    /\ \E r \in {Tokenizer_tokenize(input, pos)} :
         /\ ParserFetch(r)
         /\ CASE ParseDispatch(r.tok) = "return" -> ParseReturn(Value(program))
              [] ParseDispatch(r.tok) = "load" ->
                    /\ pc' = "lparen"
                    /\ UNCHANGED <<program, module_name, symbols, ident, ret>>
              [] OTHER -> ParseFail

\* parse_load_stmt: '(' after 'load'.
IsLParen(t) == t # Nullopt /\ t.kind = "Punctuator" /\ t.punctuator = "LParen"

parse_load_stmt_lparen ==
    /\ pc = "lparen"
    /\ \E r \in {Tokenizer_tokenize(input, pos)} :
         /\ ParserFetch(r)
         /\ IF IsLParen(r.tok)
            THEN /\ pc' = "module_name"
                 /\ UNCHANGED <<program, module_name, symbols, ident, ret>>
            ELSE ParseFail

\* parse_load_stmt: the module name.
IsModuleName(t) == t # Nullopt /\ t.kind = "StringLiteral"

parse_load_stmt_module_name ==
    /\ pc = "module_name"
    /\ \E r \in {Tokenizer_tokenize(input, pos)} :
         /\ ParserFetch(r)
         /\ IF IsModuleName(r.tok)
            THEN /\ module_name' = r.tok
                 /\ symbols' = << >>
                 /\ pc' = "comma_or_rparen"
                 /\ UNCHANGED <<program, ident, ret>>
            ELSE ParseFail

\* A symbol loop that takes the end of the text for the closing ')'.
CommaOrRParen_EofBreaks(t) ==
    IF t = Nullopt THEN "fail"
    ELSE IF t = Eof THEN "break"
    ELSE IF t.kind # "Punctuator" THEN "fail"
    ELSE IF t.punctuator = "RParen" THEN "break"
    ELSE IF t.punctuator # "Comma" THEN "fail"
    ELSE "symbol"

\* parse_load_stmt: what the symbol loop does with the token where ',' or
\* ')' is expected: "break", "symbol" (go on to the next symbol) or "fail".
CommaOrRParen(t) ==
    IF t = Nullopt THEN "fail"
    ELSE IF t.kind # "Punctuator" THEN "fail"
    ELSE IF t.punctuator = "RParen" THEN "break"
    ELSE IF t.punctuator # "Comma" THEN "fail"
    ELSE "symbol"

\* A parser that puts each statement in front of the earlier ones.
PushStatement_Front(prog, stmt) == <<stmt>> \o prog

\* A parser whose program holds the latest statement only.
PushStatement_Latest(prog, stmt) == <<stmt>>

\* Parser::parse: program.statements.push_back(load).
PushStatement(prog, stmt) == Append(prog, stmt)

\* A parse_load_stmt without the check for an empty symbol list.
FinishLoadStmt_AllowEmpty(m, syms) == Value(LoadStmt(m.value, syms))

\* parse_load_stmt after the loop: the statement, or std::nullopt.
FinishLoadStmt(m, syms) ==
    IF syms = << >> THEN Nullopt ELSE Value(LoadStmt(m.value, syms))

parse_load_stmt_comma_or_rparen ==
    /\ pc = "comma_or_rparen"
    /\ \E r \in {Tokenizer_tokenize(input, pos)} :
         /\ ParserFetch(r)
         /\ CASE CommaOrRParen(r.tok) = "symbol" ->
                    /\ pc' = "ident_or_symbol"
                    /\ UNCHANGED <<program, module_name, symbols, ident, ret>>
              [] CommaOrRParen(r.tok) = "break"
                   /\ FinishLoadStmt(module_name, symbols) # Nullopt ->
                    /\ program' = PushStatement(program,
                                     FinishLoadStmt(module_name, symbols).value)
                    /\ module_name' = Nullopt
                    /\ symbols' = << >>
                    /\ ident' = Nullopt
                    /\ pc' = "parse"
                    /\ UNCHANGED ret
              [] OTHER -> ParseFail

\* parse_load_stmt: the pair appended for a symbol spelled as a bare string.
BareSymbol(t) == <<t.value, t.value>>

parse_load_stmt_ident_or_symbol ==
    /\ pc = "ident_or_symbol"
    /\ \E r \in {Tokenizer_tokenize(input, pos)} :
         /\ ParserFetch(r)
         /\ IF r.tok = Nullopt THEN ParseFail
            ELSE IF r.tok.kind = "StringLiteral"
            THEN /\ symbols' = Append(symbols, BareSymbol(r.tok))
                 /\ pc' = "comma_or_rparen"
                 /\ UNCHANGED <<program, module_name, ident, ret>>
            ELSE IF r.tok.kind = "Identifier"
            THEN /\ ident' = r.tok
                 /\ pc' = "equals"
                 /\ UNCHANGED <<program, module_name, symbols, ret>>
            ELSE ParseFail

\* An expect_next_token that takes any token for the expected one.
expect_next_token_Any(t, expected) == t # Nullopt

\* Parser::expect_next_token: the token is there and equals `expected`.
expect_next_token(t, expected) == t # Nullopt /\ t = expected

parse_load_stmt_equals ==
    /\ pc = "equals"
    /\ \E r \in {Tokenizer_tokenize(input, pos)} :
         /\ ParserFetch(r)
         /\ IF expect_next_token(r.tok, Punctuator("Equals"))
            THEN /\ pc' = "symbol"
                 /\ UNCHANGED <<program, module_name, symbols, ident, ret>>
            ELSE ParseFail

\* Parser::next_token_as<T>: the token if it holds alternative T.
next_token_as(t, T) == IF t # Nullopt /\ t.kind = T THEN t ELSE Nullopt

\* A parse_load_stmt that pairs the two names the other way round.
AliasSymbol_Swapped(id, t) == <<t.value, id.name>>

\* parse_load_stmt: the pair appended for `identifier = "string"`.
AliasSymbol(id, t) == <<id.name, t.value>>

parse_load_stmt_symbol ==
    /\ pc = "symbol"
    /\ \E r \in {Tokenizer_tokenize(input, pos)} :
         /\ ParserFetch(r)
         /\ IF next_token_as(r.tok, "StringLiteral") # Nullopt
            THEN /\ symbols' = Append(symbols,
                        AliasSymbol(ident, next_token_as(r.tok, "StringLiteral")))
                 /\ pc' = "comma_or_rparen"
                 /\ UNCHANGED <<program, module_name, ident, ret>>
            ELSE ParseFail

(***************************************************************************)
(* The callers of tokenize(input) that render its tokens: main of          *)
(* ffs/main.cc prints the to_string of the tokens, the test of             *)
(* tokenizer_test.cc compares the to_string of the tokens, a non-empty     *)
(* sequence, with the expected string.                                     *)
(***************************************************************************)
Rendered(by, text) ==
    /\ out' = [by |-> by, text |-> text]
    /\ pc' = "rendered"
    /\ UNCHANGED <<origin, input, mode, pos, prev, last, calls, tokens, program,
                   module_name, symbols, ident, ret, other>>

main_to_string ==
    /\ mode = "tokenize"
    /\ pc = "done"
    /\ ret.kind = "value"
    /\ Rendered("main", to_string_vector(ret.value))

test_to_string ==
    /\ mode = "tokenize"
    /\ pc = "done"
    /\ ret.kind = "value"
    /\ ret.value # << >>
    /\ Rendered("test", to_string_span(ret.value))

(***************************************************************************)
(* The second Tokenizer: a caller calls its tokenize() once more, at any   *)
(* point of the run of the first instance.  The call works on the members  *)
(* input_ and pos_ of its own object.                                      *)
(***************************************************************************)
\* A Tokenizer whose cursor is one static variable of the class.
OtherCursor_Static(o) == pos

\* this->pos_ of the second instance.
OtherCursor(o) == o.pos

Other_call ==
    /\ other.live
    /\ other.calls < MaxCalls
    /\ \E r \in {Tokenizer_tokenize(other.input, OtherCursor(other))} :
         other' = [other EXCEPT !.pos = r.pos, !.last = r.tok, !.calls = @ + 1]
    /\ UNCHANGED <<origin, input, mode, pc, pos, prev, last, calls, tokens, program,
                   module_name, symbols, ident, ret, out>>

Next ==
    \/ Tokenizer_call
    \/ tokenize_loop
    \/ parse_loop
    \/ parse_load_stmt_lparen
    \/ parse_load_stmt_module_name
    \/ parse_load_stmt_comma_or_rparen
    \/ parse_load_stmt_ident_or_symbol
    \/ parse_load_stmt_equals
    \/ parse_load_stmt_symbol
    \/ main_to_string
    \/ test_to_string
    \/ Other_call

Spec == Init /\ [][Next]_vars

(***************************************************************************)
(* Properties.                                                             *)
(***************************************************************************)

\* The results of calling the single-token operation again and again on one
\* tokenizer with its cursor at p, up to and including the first Eof or
\* the first failure.
RECURSIVE TokenStream(_, _)
TokenStream(s, p) ==
    LET r == Tokenizer_tokenize(s, p)
    IN  IF r.tok = Nullopt \/ r.tok = Eof
        THEN <<r.tok>>
        ELSE <<r.tok>> \o TokenStream(s, r.pos)

Rules_cc == <<"@", "r", "u", "l", "e", "s", "_", "c", "c", "/", "/", "c", "c",
              ":", "d", "e", "f", "s", ".", "b", "z", "l">>
Cc_library == <<"c", "c", "_", "l", "i", "b", "r", "a", "r", "y">>
Cc_test == <<"c", "c", "_", "t", "e", "s", "t">>

\* tokenizer_test.cc: the tokens of kTestCases[0].
TestLoadTwoTokens ==
    << Keyword("Load"), Punctuator("LParen"), StringLiteral(Rules_cc),
       Punctuator("Comma"), StringLiteral(Cc_library),
       Punctuator("Comma"), StringLiteral(Cc_test), Punctuator("RParen") >>

\* C1: tokenize(input) calls the single-token operation on one tokenizer
\* until the first Eof or failure.  While it runs it holds the tokens got
\* so far, in order; on Eof it returns exactly the tokens before the Eof;
\* on a failure it returns std::nullopt, which carries no token.
C1_TokenizeCollects ==
    [][mode = "tokenize" =>
        /\ pc' = "loop" =>
              /\ ret' = NoReturn
              /\ Len(tokens') = calls'
              /\ calls' > 0 => tokens'[calls'] = last' /\ last' \notin {Eof, Nullopt}
        /\ (pc = "loop" /\ pc' = "done") =>
              LET st == TokenStream(input, 0)
                  n == Len(st)
              IN  /\ calls' = n
                  /\ IF st[n] = Eof
                     THEN ret' = Value(SubSeq(st, 1, n - 1))
                     ELSE ret' = Nullopt
        /\ (pc = "loop" /\ pc' = "done" /\ input = TestLoadTwo) =>
              ret' = Value(TestLoadTwoTokens)
        /\ pc = "done" => ret' = ret]_vars

\* tokenize() failed at its third call or later: tokens had been collected.
C1_Witness ==
    /\ mode = "tokenize"
    /\ pc = "done"
    /\ ret = Nullopt
    /\ last = Nullopt
    /\ calls >= 3

\* C2: a text that is one spelling of the punctuator table tokenizes to
\* the one punctuator paired with that spelling; <<=, >>=, // and ** are one
\* token each.
C2_PunctuatorAlone ==
    (mode = "tokenize" /\ pc = "done") =>
        /\ \A i \in 1..Len(kPunctuatorsInit) :
              input = kPunctuatorsInit[i].str =>
                  ret = Value(<<Punctuator(kPunctuatorsInit[i].punctuator)>>)
        /\ input = <<"<", "<", "=">> => ret = Value(<<Punctuator("LShiftEquals")>>)
        /\ input = <<">", ">", "=">> => ret = Value(<<Punctuator("RShiftEquals")>>)
        /\ input = <<"/", "/">> => ret = Value(<<Punctuator("DoubleSlash")>>)
        /\ input = <<"*", "*">> => ret = Value(<<Punctuator("DoubleStar")>>)

C2_Witness ==
    /\ mode = "tokenize"
    /\ pc = "done"
    /\ input = <<"<", "<", "=">>
    /\ ret = Value(<<Punctuator("LShiftEquals")>>)

\* Letters, digits and the underscore, written out.
Letters ==
    {"a", "b", "c", "d", "e", "f", "g", "h", "i", "j", "k", "l", "m", "n", "o",
     "p", "q", "r", "s", "t", "u", "v", "w", "x", "y", "z", "A", "B", "C", "D",
     "E", "F", "G", "H", "I", "J", "K", "L", "M", "N", "O", "P", "Q", "R", "S",
     "T", "U", "V", "W", "X", "Y", "Z"}
IsWordStart(c) == c \in Letters \cup {"_"}
IsWordChar(c) ==
    c \in Letters \cup {"_", "0", "1", "2", "3", "4", "5", "6", "7", "8", "9"}

\* The end of the maximal run of word characters of s that starts at b
\* (0-based, the end exclusive).
RunEnd(s, b) ==
    CHOOSE e \in b..Len(s) :
        /\ \A i \in (b + 1)..e : IsWordChar(s[i])
        /\ e = Len(s) \/ ~IsWordChar(s[e + 1])

\* Where the token of the latest call begins: the cursor after skipping.
TokenStart == skip_comments_and_whitespace(input, prev)

\* C3: a call that finds a letter or underscore at the cursor consumes the
\* maximal run of letters, digits and underscores; it returns Keyword k iff
\* the run is the spelling of k, one of the 15 reserved words, and otherwise
\* Identifier with the run as its name.  Load, loadx, if1 and in_ are one
\* Identifier each.
C3_KeywordOrIdentifier ==
    /\ Len(KeywordSpellings) = 15
    /\ (calls > 0 /\ TokenStart < Len(input) /\ IsWordStart(input[TokenStart + 1])) =>
          LET e == RunEnd(input, TokenStart)
              run == SubSeq(input, TokenStart + 1, e)
              kw == {i \in 1..Len(KeywordSpellings) : KeywordSpellings[i].str = run}
          IN  /\ pos = e
              /\ \A i \in kw : last = Keyword(KeywordSpellings[i].keyword)
              /\ kw = {} => last = Identifier(run)
    /\ (mode = "tokenize" /\ pc = "done"
          /\ input \in { <<"L", "o", "a", "d">>, <<"l", "o", "a", "d", "x">>,
                         <<"i", "f", "1">>, <<"i", "n", "_">> })
          => ret = Value(<<Identifier(input)>>)

\* if1 was read as one identifier.
C3_Witness ==
    /\ calls = 1
    /\ input = <<"i", "f", "1">>
    /\ last = Identifier(<<"i", "f", "1">>)
    /\ pos = 3

\* What a parser of the load grammar is to return for the j-th statement
\* of a program, of shape sh.
ExpectedStmt(j, sh) ==
    LoadStmt(Nth(ModuleNames, j),
             [i \in 1..Len(sh) |->
                 IF sh[i] = "bare"
                 THEN <<Nth(ExportedNames, i), Nth(ExportedNames, i)>>
                 ELSE <<Nth(LocalNames, i), Nth(ExportedNames, i)>>])

ExpectedProgram(shapes) == [j \in 1..Len(shapes) |-> ExpectedStmt(j, shapes[j])]

\* The text is n >= 0 well-formed load statements and nothing else.
IsWellFormedProgram(o) ==
    /\ o.family = "program"
    /\ o.edit = NoEdit
    /\ \A j \in 1..Len(o.shapes) : Len(o.shapes[j]) >= 1

\* C4: on n >= 0 well-formed load statements, with nothing, blanks or
\* comments between the tokens, parse returns the n statements in source
\* order, each with its module name and its symbols in source order.  The
\* first case of parser_test.cc is one of them.
C4_WellFormedProgram ==
    (mode = "parse" /\ pc = "done") =>
        /\ IsWellFormedProgram(origin) => ret = Value(ExpectedProgram(origin.shapes))
        /\ input = TestLoadTwo =>
              ret = Value(<<LoadStmt(Rules_cc, << <<Cc_library, Cc_library>>,
                                                 <<Cc_test, Cc_test>> >>)>>)

\* MaxStmts statements separated by comments were parsed.
C4_Witness ==
    /\ mode = "parse"
    /\ pc = "done"
    /\ IsWellFormedProgram(origin)
    /\ Len(origin.shapes) = MaxStmts
    /\ origin.sep = Len(Separators)
    /\ ret = Value(ExpectedProgram(origin.shapes))
    /\ Len(ret.value) = MaxStmts

\* The symbol entries of the load statements of a token stream that is a
\* sequence of load statements, read off the tokens: EntriesFrom reads the
\* entries from token j on, up to the closing parenthesis.
RECURSIVE EntriesFrom(_, _)
EntriesFrom(st, j) ==
    IF st[j] = Punctuator("RParen") THEN [pairs |-> << >>, next |-> j + 1]
    ELSE IF st[j + 1].kind = "StringLiteral"
    THEN LET r == EntriesFrom(st, j + 2)
         IN  [pairs |-> << <<st[j + 1].value, st[j + 1].value>> >> \o r.pairs,
              next |-> r.next]
    ELSE LET r == EntriesFrom(st, j + 4)
         IN  [pairs |-> << <<st[j + 1].name, st[j + 3].value>> >> \o r.pairs,
              next |-> r.next]

RECURSIVE SourceEntries(_, _)
SourceEntries(st, i) ==
    IF st[i] = Eof THEN << >>
    ELSE LET e == EntriesFrom(st, i + 3)
         IN  <<e.pairs>> \o SourceEntries(st, e.next)

Foo == <<"f", "o", "o">>

\* C5: in every statement of a returned program the i-th pair is the i-th
\* symbol entry of the source: (s, s) for "s" and (identifier, s) for
\* identifier = "s"; there is no other pair.  The second case of
\* parser_test.cc is one of them.
C5_SymbolPairs ==
    (mode = "parse" /\ pc = "done") =>
        /\ ret.kind = "value" =>
              [k \in 1..Len(ret.value) |-> ret.value[k].symbols]
                  = SourceEntries(TokenStream(input, 0), 1)
        /\ input = TestLoadAlias =>
              ret = Value(<<LoadStmt(Rules_cc, << <<Foo, Cc_library>> >>)>>)

\* A statement with a bare entry and an alias entry was parsed.
C5_Witness ==
    /\ mode = "parse"
    /\ pc = "done"
    /\ ret.kind = "value"
    /\ Len(ret.value) = 1
    /\ ret.value[1].symbols = << <<<<"a">>, <<"a">>>>, <<<<"y", "2">>, <<"b">>>> >>

\* The last statement of the text is load("m") or load().
IsZeroSymbolLoad(o) ==
    /\ o.family = "program"
    /\ Len(o.shapes) >= 1
    /\ o.shapes[Len(o.shapes)] = << >>
    /\ o.edit \in {NoEdit, [op |-> "delete", at |-> 3, with |-> << >>]}

\* C6: no statement the parser holds or returns has an empty symbol list,
\* and a text that ends in load("m") or load() makes parse fail.
C6_NonEmptySymbols ==
    mode = "parse" =>
        /\ \A k \in 1..Len(program) : program[k].symbols # << >>
        /\ ret.kind = "value" =>
              \A k \in 1..Len(ret.value) : ret.value[k].symbols # << >>
        /\ (pc = "done" /\ IsZeroSymbolLoad(origin)) => ret = Nullopt

\* load("m") after MaxStmts - 1 statements: rejected at its ')'.
C6_Witness ==
    /\ mode = "parse"
    /\ pc = "done"
    /\ IsZeroSymbolLoad(origin)
    /\ origin.edit = NoEdit
    /\ Len(origin.shapes) = MaxStmts
    /\ last = Punctuator("RParen")
    /\ ret = Nullopt

\* The last statement of the text is a well-formed load statement with a
\* comma put before its closing parenthesis.
HasTrailingComma(o) ==
    /\ o.family = "program"
    /\ Len(o.shapes) >= 1
    /\ \A j \in 1..Len(o.shapes) : Len(o.shapes[j]) >= 1
    /\ o.edit = [op |-> "insert",
                 at |-> Len(StmtTokens(Len(o.shapes), o.shapes[Len(o.shapes)])),
                 with |-> T_comma]

\* C7: a load statement with one trailing comma before the closing
\* parenthesis is accepted and gives the same statement as without it.
C7_TrailingComma ==
    (mode = "parse" /\ pc = "done" /\ HasTrailingComma(origin)) =>
        ret = Value(ExpectedProgram(origin.shapes))

\* Tokens requested by a parse of MaxStmts - 1 one-symbol statements.
PrefixCalls == 6 * (MaxStmts - 1)

\* C8: when the token at the start of a statement is a keyword other than
\* load, parse ends at once with a failure and no program, whatever was
\* parsed before.
C8_OtherKeyword ==
    [][(mode = "parse" /\ pc = "parse" /\ calls' = calls + 1
            /\ last'.kind = "Keyword" /\ last'.keyword # "Load")
          => (pc' = "done" /\ ret' = Nullopt)]_vars

\* A keyword other than load after MaxStmts - 1 parsed statements.
C8_Witness ==
    /\ mode = "parse"
    /\ pc = "done"
    /\ ret = Nullopt
    /\ last.kind = "Keyword"
    /\ last.keyword # "Load"
    /\ origin.family = "program"
    /\ Len(origin.shapes) = MaxStmts
    /\ origin.edit.op = "replace"
    /\ origin.edit.at = 1
    /\ calls = PrefixCalls + 1

\* The tokens the load grammar admits at each point of Parser::parse and
\* parse_load_stmt; syms are the symbols of the statement so far.
Accepts(at, t, syms) ==
    CASE at = "parse" -> t = Eof \/ t = Keyword("Load")
      [] at = "lparen" -> t = Punctuator("LParen")
      [] at = "module_name" -> t.kind = "StringLiteral"
      [] at = "comma_or_rparen" ->
            t = Punctuator("Comma") \/ (t = Punctuator("RParen") /\ syms # << >>)
      [] at = "ident_or_symbol" -> t.kind \in {"StringLiteral", "Identifier"}
      [] at = "equals" -> t = Punctuator("Equals")
      [] at = "symbol" -> t.kind = "StringLiteral"
      [] OTHER -> FALSE

\* C9: the first token the grammar does not admit, or the first tokenizer
\* failure, ends parse (and tokenize) at once with a failure; a program is
\* returned only on Eof at the start of a statement; after the return no
\* further token is requested.
C9_AtomicFailure ==
    [][/\ (mode = "parse" /\ calls' = calls + 1 /\ ~Accepts(pc, last', symbols))
            => (pc' = "done" /\ ret' = Nullopt)
       /\ (mode = "tokenize" /\ calls' = calls + 1 /\ last' = Nullopt)
            => (pc' = "done" /\ ret' = Nullopt)
       /\ (mode = "parse" /\ ret.kind = "none" /\ ret'.kind = "value")
            => (pc = "parse" /\ last' = Eof /\ ret' = Value(program))
       /\ (mode \in {"parse", "tokenize"} /\ pc = "done")
            => (calls' = calls /\ pos' = pos /\ ret' = ret)]_vars

\* A failure inside the last statement, after MaxStmts - 1 statements were
\* parsed and with tokens of the text not yet requested.
C9_Witness ==
    /\ mode = "parse"
    /\ pc = "done"
    /\ ret = Nullopt
    /\ origin.family = "program"
    /\ Len(origin.shapes) = MaxStmts
    /\ calls > PrefixCalls + 1
    /\ Len(TokenStream(input, pos)) >= 2

\* The characters of s from a + 1 to b are blanks or belong to a comment
\* that starts at or after a + 1.
IsSkippable(s, a, b) ==
    \A i \in (a + 1)..b :
        \/ is_whitespace(s[i])
        \/ \E h \in (a + 1)..i : s[h] = "#" /\ \A k \in h..i : s[k] # "\n"

\* A comment that starts after a is still open at b.
IsInComment(s, a, b) ==
    \E h \in (a + 1)..b : s[h] = "#" /\ \A k \in h..b : s[k] # "\n"

\* s without its comments; the newline that ends a comment stays.
RECURSIVE StripComments(_, _, _)
StripComments(s, i, inComment) ==
    IF i > Len(s) THEN << >>
    ELSE IF s[i] = "\n" THEN <<s[i]>> \o StripComments(s, i + 1, FALSE)
    ELSE IF inComment \/ s[i] = "#" THEN StripComments(s, i + 1, TRUE)
    ELSE <<s[i]>> \o StripComments(s, i + 1, FALSE)

\* The result of tokenize on s, from the token stream.
TokenizeOf(s) ==
    LET st == TokenStream(s, 0)
        n == Len(st)
    IN  IF st[n] = Eof THEN Value(SubSeq(st, 1, n - 1)) ELSE Nullopt

HasQuote(s) == \E i \in 1..Len(s) : s[i] = "\""

\* C10: before each token the tokenizer skips blanks (space, tab, CR, LF)
\* and comments (from '#' up to the newline or the end) and nothing else;
\* it stops at the end of the text or at a character that is neither a
\* blank nor '#'; text made of blanks and comments gives no token; outside
\* string literals the characters of comments do not change the tokens.
C10_SkipsBlanksAndComments ==
    /\ calls > 0 =>
          /\ prev <= TokenStart
          /\ TokenStart <= pos
          /\ TokenStart <= Len(input)
          /\ IsSkippable(input, prev, TokenStart)
          /\ TokenStart < Len(input) =>
                /\ ~is_whitespace(input[TokenStart + 1])
                /\ input[TokenStart + 1] # "#"
                /\ ~IsInComment(input, prev, TokenStart)
          /\ TokenStart = Len(input) => (last = Eof /\ pos = Len(input))
    /\ (mode = "tokenize" /\ pc = "done" /\ ~HasQuote(input)) =>
          ret = TokenizeOf(StripComments(input, 1, FALSE))

\* Two comments and the blanks around them were skipped before a keyword.
C10_Witness ==
    /\ calls = 1
    /\ TokenStart >= 10
    /\ \E h \in 1..TokenStart : \E k \in (h + 1)..TokenStart :
          input[h] = "#" /\ input[k] = "#" /\ \E n \in h..k : input[n] = "\n"
    /\ last.kind = "Keyword"
    /\ pos = Len(input)

\* The text of s at q (0-based) opens a string that is never closed: one
\* quote with no quote after it, or three quotes with no three quotes
\* after them.
IsUnterminatedAt(s, q) ==
    /\ q < Len(s)
    /\ s[q + 1] = "\""
    /\ IF q + 3 <= Len(s) /\ SubSeq(s, q + 1, q + 3) = <<"\"", "\"", "\"">>
       THEN \A k \in (q + 4)..(Len(s) - 2) :
               SubSeq(s, k, k + 2) # <<"\"", "\"", "\"">>
       ELSE \A k \in (q + 2)..Len(s) : s[k] # "\""

\* C11: a call whose token starts with a quote that is never closed (one
\* quote and no later quote, or three quotes and no later three quotes)
\* returns the failure, neither a StringLiteral nor Eof, and tokenize and
\* parse return the failure with it.
C11_UnterminatedString ==
    (calls > 0 /\ IsUnterminatedAt(input, TokenStart)) =>
        /\ last = Nullopt
        /\ mode \in {"tokenize", "parse"} => (pc = "done" /\ ret = Nullopt)

\* """a"" : three quotes, then quotes but never three in a row.
C11_Witness ==
    /\ mode = "parse"
    /\ pc = "done"
    /\ calls = 1
    /\ input = <<"\"", "\"", "\"", "a", "\"", "\"">>
    /\ IsUnterminatedAt(input, TokenStart)
    /\ last = Nullopt
    /\ ret = Nullopt

\* C12: a call returns Eof iff the cursor is at the end of the text after
\* the skip, that is iff only blanks and comments were left; Eof is not the
\* failure; a text of blanks and comments only tokenizes to the empty
\* sequence.
C12_EofIffAtEnd ==
    /\ Eof # Nullopt
    /\ calls > 0 =>
          /\ last = Eof <=> TokenStart = Len(input)
          /\ last = Eof <=> IsSkippable(input, prev, Len(input))
          /\ last = Eof => pos = Len(input)
    /\ (mode = "tokenize" /\ pc = "done" /\ IsSkippable(input, 0, Len(input))) =>
          ret = Value(<< >>)

\* A text of a comment and a newline tokenized to the empty sequence.
C12_Witness ==
    /\ mode = "tokenize"
    /\ pc = "done"
    /\ calls = 1
    /\ Len(input) >= 3
    /\ input[1] = "#"
    /\ input[Len(input)] = "\n"
    /\ last = Eof
    /\ ret = Value(<< >>)

\* C13: when the token at the start of a statement is a punctuator, an
\* identifier or a string literal, parse ends in that step with the
\* failure, whatever was parsed before, and requests no token after it.
C13_OtherTokenAtStart ==
    [][/\ (mode = "parse" /\ pc = "parse" /\ calls' = calls + 1
             /\ last'.kind \in {"Punctuator", "Identifier", "StringLiteral"})
            => (pc' = "done" /\ ret' = Nullopt /\ calls' = calls + 1)
       /\ (mode = "parse" /\ pc = "done") => (calls' = calls /\ pos' = pos)]_vars

\* An identifier after MaxStmts - 1 parsed statements.
C13_Witness ==
    /\ mode = "parse"
    /\ pc = "done"
    /\ ret = Nullopt
    /\ last.kind = "Identifier"
    /\ origin.family = "program"
    /\ Len(origin.shapes) = MaxStmts
    /\ origin.edit.op = "replace"
    /\ origin.edit.at = 1
    /\ calls = PrefixCalls + 1
    /\ pos < Len(input)

\* The spelling the tokenizer reads token t from: the table spelling of a
\* punctuator, the word of a keyword, the name of an identifier, and the
\* value of a string literal between two double quotes.
SpellingOf(t) ==
    CASE t.kind = "Punctuator" ->
            kPunctuatorsInit[CHOOSE i \in 1..Len(kPunctuatorsInit) :
                                kPunctuatorsInit[i].punctuator = t.punctuator].str
      [] t.kind = "Keyword" ->
            KeywordSpellings[CHOOSE i \in 1..Len(KeywordSpellings) :
                                KeywordOf(KeywordSpellings[i].str) = t].str
      [] t.kind = "Identifier" -> t.name
      [] t.kind = "StringLiteral" -> <<"\"">> \o t.value \o <<"\"">>

\* The spellings of the tokens from the i-th on, each followed by a space.
RECURSIVE SpellingsFrom(_, _)
SpellingsFrom(toks, i) ==
    IF i > Len(toks) THEN << >>
    ELSE SpellingOf(toks[i]) \o <<" ">> \o SpellingsFrom(toks, i + 1)

\* tokenizer_test.cc: the expected string of kTestCases[0].
TestLoadTwoRendered ==
    <<"l", "o", "a", "d", " ", "(", " ", "\"">> \o Rules_cc
        \o <<"\"", " ", ",", " ", "\"">> \o Cc_library
        \o <<"\"", " ", ",", " ", "\"">> \o Cc_test \o <<"\"", " ", ")">>

\* C14: every token renders as its spelling (a punctuator as its literal
\* spelling, a keyword as its word, an identifier as its name, a string
\* literal as its value between double quotes, unescaped) and Eof as <eof>;
\* a token sequence renders as the spellings in order with one space between
\* two tokens (the renderer of ffs/main.cc puts one more space after the
\* last token); the tokens of the test case render as its expected string.
C14_Rendering ==
    /\ to_string_Token(Eof) = <<"<", "e", "o", "f", ">">>
    /\ pc = "rendered" =>
          LET spaced == SpellingsFrom(ret.value, 1)
          IN  /\ \A i \in 1..Len(ret.value) :
                    to_string_Token(ret.value[i]) = SpellingOf(ret.value[i])
              /\ out.by = "main" => out.text = spaced
              /\ out.by = "test" => out.text = SubSeq(spaced, 1, Len(spaced) - 1)
              /\ (out.by = "test" /\ input = TestLoadTwo) =>
                    out.text = TestLoadTwoRendered

\* The test of tokenizer_test.cc rendered the tokens of its case.
C14_Witness ==
    /\ pc = "rendered"
    /\ input = TestLoadTwo
    /\ ret = Value(TestLoadTwoTokens)
    /\ out = [by |-> "test", text |-> TestLoadTwoRendered]

\* What the n-th call of a tokenizer that runs alone over s returns, with
\* the cursor it leaves.
RECURSIVE AloneRun(_, _)
AloneRun(s, n) ==
    IF n = 0 THEN Result(Nullopt, 0)
    ELSE Tokenizer_tokenize(s, AloneRun(s, n - 1).pos)

\* C15: with a second tokenizer at work over another text, under every
\* interleaving of the calls, every call of either instance returns what
\* the same call returns when the instance runs alone, and leaves the other
\* instance, its cursor included, as it was; tokenize returns what it
\* returns alone.
C15_IndependentInstances ==
    [][other.live =>
         /\ Result(last', pos') = AloneRun(input, calls')
         /\ Result(other'.last, other'.pos) = AloneRun(other.input, other'.calls)
         /\ other'.input = other.input
         /\ input' = input
         /\ other' # other =>
               (other'.calls = other.calls + 1
                  /\ pos' = pos /\ last' = last /\ calls' = calls /\ ret' = ret)
         /\ calls' # calls => (calls' = calls + 1 /\ other' = other)
         /\ (mode = "tokenize" /\ ret'.kind # "none") => ret' = TokenizeOf(input)]_vars

\* A parser and a tokenizer over two different texts, two calls or more
\* each, the cursors apart.
C15_Witness ==
    /\ other.live
    /\ mode = "parse"
    /\ input # other.input
    /\ calls >= 2
    /\ other.calls >= 2
    /\ pos # other.pos
    /\ last.kind = "StringLiteral"
    /\ other.last.kind = "Punctuator"

\* s (a spelling) is at 0-based position q of text t.
IsAt(s, t, q) == q + Len(s) <= Len(t) /\ \A k \in 1..Len(s) : t[q + k] = s[k]

\* Punctuator matching is attempted at q: the text does not end there and
\* the character is neither a quote, a letter nor an underscore.
IsPunctuatorStart(t, q) ==
    q < Len(t) /\ t[q + 1] # "\"" /\ ~IsWordStart(t[q + 1])

\* C16: where a call attempts punctuator matching, the punctuator returned
\* is the one of the longest table spelling found at the cursor, and the
\* cursor moves on by the length of that spelling; whichever order the sort
\* left the spellings of one length in, the result is the same.
C16_LongestMatch ==
    [][calls' = calls + 1 =>
        LET q == skip_comments_and_whitespace(input, pos)
            found == {i \in 1..Len(kPunctuatorsInit) :
                         IsAt(kPunctuatorsInit[i].str, input, q)}
        IN  IsPunctuatorStart(input, q) =>
                /\ found # {} =>
                      \E i \in found :
                          /\ \A j \in found :
                                Len(kPunctuatorsInit[j].str)
                                    <= Len(kPunctuatorsInit[i].str)
                          /\ last' = Punctuator(kPunctuatorsInit[i].punctuator)
                          /\ pos' = q + Len(kPunctuatorsInit[i].str)
                /\ found = {} => last' = Nullopt
                /\ \A t \in OtherTieOrders :
                      MatchPunctuator(t, input, q, 1) = Result(last', pos')]_vars

\* <<= was read as one token after another token; the orders compared
\* differ from the table's own, which has >>= first and { last.
C16_Witness ==
    /\ kPunctuators \notin OtherTieOrders
    /\ kPunctuators[1].punctuator = "RShiftEquals"
    /\ kPunctuators[Len(kPunctuators)].punctuator = "LBrace"
    /\ calls = 2
    /\ prev > 0
    /\ IsPunctuatorStart(input, TokenStart)
    /\ last = Punctuator("LShiftEquals")
    /\ pos = prev + 3

\* C17: for every value p of the Punctuator enumeration, the 41 of them,
\* DoubleSlashEquals included, tokenize on the text to_string(p) returns
\* the one-token sequence [p].
C17_PunctuatorRoundTrip ==
    /\ Len(PunctuatorCases) = 41
    /\ (mode = "tokenize" /\ pc = "done") =>
          \A i \in 1..Len(PunctuatorCases) :
              input = to_string_Punctuator(PunctuatorCases[i].punctuator) =>
                  ret = Value(<<Punctuator(PunctuatorCases[i].punctuator)>>)

Quotes3 == <<"\"", "\"", "\"">>

\* C18: a token that starts with three quotes is a triple-quoted string,
\* never the empty string "" and a quote: its value is the text between
\* the opening quotes and the first three quotes found at or after their
\* end, and the cursor is left just after those closing quotes, which may
\* be the last characters of the text; six quotes are one empty string.
C18_TripleQuoted ==
    /\ calls > 0 =>
          LET q == TokenStart
              closings == {k \in (q + 3)..(Len(input) - 3) : IsAt(Quotes3, input, k)}
          IN  IsAt(Quotes3, input, q) =>
                  /\ closings = {} => last = Nullopt
                  /\ \A k \in closings :
                        (\A j \in closings : k <= j) =>
                            /\ last = StringLiteral(SubSeq(input, q + 4, k))
                            /\ pos = k + 3
    /\ (mode = "tokenize" /\ pc \in {"done", "rendered"}
          /\ input = Quotes3 \o Quotes3) => ret = Value(<<StringLiteral(<< >>)>>)

\* """a""" : one string, the closing quotes at the end of the text.
C18_Witness ==
    /\ calls = 1
    /\ input = Quotes3 \o <<"a">> \o Quotes3
    /\ last = StringLiteral(<<"a">>)
    /\ pos = Len(input)

\* The control locations a step of tokenize(input) or parse(input) starts
\* from: each is the guard of one action, which then handles every token.
RunLocations(m) ==
    IF m = "tokenize" THEN {"loop"}
    ELSE {"parse", "lparen", "module_name", "comma_or_rparen", "ident_or_symbol",
          "equals", "symbol"}

IsRunning == mode \in {"tokenize", "parse"} /\ pc \notin {"done", "rendered"}

\* C19: a call that returns a token other than Eof moves the cursor
\* forward.  So tokenize(input) and parse(input) end: while they run they
\* can take a step, Eof or a failure ends the run, and no run makes more
\* than Len(input) + 1 calls; a successful tokenize returns at most
\* Len(input) tokens.
C19_Termination ==
    /\ (calls > 0 /\ last \notin {Eof, Nullopt}) => pos > prev
    /\ (other.calls > 0 /\ other.last \notin {Eof, Nullopt}) => other.pos > 0
    /\ IsRunning => pc \in RunLocations(mode)
    /\ mode \in {"tokenize", "parse"} =>
          /\ calls <= Len(input) + 1
          /\ (calls > 0 /\ last \in {Eof, Nullopt}) => ~IsRunning
          /\ (pc = "loop" /\ calls > 0) => Len(tokens) = calls
    /\ (mode = "tokenize" /\ ret.kind = "value") => Len(ret.value) <= Len(input)

\* tokenize on a text of one-character tokens: Len(input) tokens after
\* Len(input) + 1 calls.
C19_Witness ==
    /\ mode = "tokenize"
    /\ pc = "done"
    /\ Len(input) >= 4
    /\ calls = Len(input) + 1
    /\ ret.kind = "value"
    /\ Len(ret.value) = Len(input)

\* C20: in every state the cursor of a tokenizer is between 0 and the
\* length of its text, and no call, successful or failing, leaves it before
\* where it was when the call began (prev); no call reads the text at an index that is not below its
\* length.
C20_CursorInRange ==
    /\ 0 <= prev
    /\ prev <= pos
    /\ pos <= Len(input)
    /\ 0 <= other.pos
    /\ other.pos <= Len(other.input)
    /\ calls > 0 => \A i \in CallReads(input, prev) : 0 <= i /\ i < Len(input)

\* A failing call that moved the cursor to the end of the text, after a
\* call that returned a token.
C20_Witness ==
    /\ calls >= 2
    /\ last = Nullopt
    /\ 0 < prev
    /\ prev < pos
    /\ pos = Len(input)
\* The k-th token of the last statement of program o is the local name of
\* an alias entry: the token before '='.
IsLocalNameAt(o, k) ==
    LET n == Len(o.shapes)
        toks == StmtTokens(n, o.shapes[n])
    IN  k < Len(toks) /\ toks[k + 1] = T_equals

\* C21: inside a load statement, where the parser has read the module name
\* or a symbol entry, a token other than ',' and ')' (another punctuator, a
\* keyword, an identifier, a string literal, Eof, a tokenizer failure) ends
\* parse with the failure; after ',' so does a token that is neither a
\* string literal nor an identifier, after the identifier a token other
\* than '=', and after '=' a token that is no string literal.  A keyword in
\* the place of a local name, as in load("m", for = "x"), makes parse fail.
C21_LoadGrammarErrors ==
    [][mode = "parse" =>
         /\ pc = "comma_or_rparen" => last.kind = "StringLiteral"
         /\ pc = "ident_or_symbol" => last = Punctuator("Comma")
         /\ pc = "equals" => (last.kind = "Identifier" /\ ident = last)
         /\ pc = "symbol" => last = Punctuator("Equals")
         /\ (pc = "comma_or_rparen" /\ calls' = calls + 1
               /\ last' \notin {Punctuator("Comma"), Punctuator("RParen")})
              => (pc' = "done" /\ ret' = Nullopt)
         /\ (pc = "ident_or_symbol" /\ calls' = calls + 1
               /\ last'.kind \notin {"StringLiteral", "Identifier"})
              => (pc' = "done" /\ ret' = Nullopt)
         /\ (pc = "equals" /\ calls' = calls + 1 /\ last' # Punctuator("Equals"))
              => (pc' = "done" /\ ret' = Nullopt)
         /\ (pc = "symbol" /\ calls' = calls + 1 /\ last'.kind # "StringLiteral")
              => (pc' = "done" /\ ret' = Nullopt)
         /\ (pc = "done" /\ origin.family = "program" /\ origin.edit.op = "replace"
               /\ origin.edit.with = <<"f", "o", "r">>
               /\ IsLocalNameAt(origin, origin.edit.at))
              => ret = Nullopt]_vars

\* load("m", for = "a") after MaxStmts - 1 parsed statements: parse failed
\* at the keyword.
C21_Witness ==
    /\ mode = "parse"
    /\ pc = "done"
    /\ ret = Nullopt
    /\ last = Keyword("For")
    /\ origin.family = "program"
    /\ Len(origin.shapes) = MaxStmts
    /\ origin.edit.op = "replace"
    /\ IsLocalNameAt(origin, origin.edit.at)
    /\ origin.edit.at = 5
    /\ calls = PrefixCalls + 5

\* The text is well-formed load statements, the last one cut at a token
\* boundary after its `load` and before its closing ')': of its tokens the
\* first o.edit.at - 1 are left.
IsCutLoad(o) ==
    /\ o.family = "program"
    /\ Len(o.shapes) >= 1
    /\ \A j \in 1..Len(o.shapes) : Len(o.shapes[j]) >= 1
    /\ o.edit.op = "truncate"
    /\ o.edit.at >= 2

\* C22: when the text ends inside a load statement, at any token boundary
\* after `load` and before the closing ')', the parser gets Eof where it
\* expects '(', the module name, ',' or ')', a symbol, '=' or a string,
\* and parse fails: it returns no program, not even the statements parsed
\* before or the statement so far.
C22_PrematureEnd ==
    (mode = "parse" /\ IsCutLoad(origin)) =>
        /\ ret.kind # "value"
        /\ pc = "done" =>
              /\ ret = Nullopt
              /\ last = Eof
              /\ calls = 6 * (Len(origin.shapes) - 1) + origin.edit.at

\* The text ends after the '=' of an alias entry of the last of MaxStmts
\* statements: parse failed on the Eof.
C22_Witness ==
    /\ mode = "parse"
    /\ pc = "done"
    /\ IsCutLoad(origin)
    /\ Len(origin.shapes) = MaxStmts
    /\ StmtTokens(MaxStmts, origin.shapes[MaxStmts])[origin.edit.at - 1] = T_equals
    /\ last = Eof
    /\ ret = Nullopt

\* The text of s at q (0-based) is one quote, not three, and a quote
\* follows later.
IsClosedStringAt(s, q) ==
    /\ q < Len(s)
    /\ s[q + 1] = "\""
    /\ ~(q + 3 <= Len(s) /\ SubSeq(s, q + 1, q + 3) = <<"\"", "\"", "\"">>)
    /\ \E e \in (q + 2)..Len(s) : s[e] = "\""

\* The index (1-based) of the first quote of s after the quote at q.
ClosingQuote(s, q) ==
    CHOOSE e \in (q + 2)..Len(s) :
        s[e] = "\"" /\ \A k \in (q + 2)..(e - 1) : s[k] # "\""

\* C23: a call that finds one quote (not three) at the cursor, with a quote
\* somewhere after it, returns the StringLiteral of the characters between
\* that quote and the next one, as they are: newlines, '#' and backslashes
\* belong to the value, '#' starts no comment and a backslash before a
\* quote does not keep the quote from closing the string; the cursor is
\* left right after the closing quote.
C23_StringVerbatim ==
    [][/\ (calls' = calls + 1
             /\ IsClosedStringAt(input, skip_comments_and_whitespace(input, pos))) =>
             LET q == skip_comments_and_whitespace(input, pos)
                 e == ClosingQuote(input, q)
             IN  /\ last' = StringLiteral(SubSeq(input, q + 2, e - 1))
                 /\ pos' = e
       /\ (mode = "tokenize" /\ pc' = "done") =>
             /\ input = <<"\"", "#", "a", "\"">> =>
                   ret' = Value(<<StringLiteral(<<"#", "a">>)>>)
             /\ input = <<"\"", "a", "\n", "\"">> =>
                   ret' = Value(<<StringLiteral(<<"a", "\n">>)>>)
             /\ input = <<"\"", "\\", "\"", "a">> =>
                   ret' = Value(<<StringLiteral(<<"\\">>), Identifier(<<"a">>)>>)]_vars

\* The string of a backslash: the quote after the backslash closed it.
C23_Witness ==
    /\ calls = 1
    /\ input = <<"\"", "\\", "\"", "a">>
    /\ IsClosedStringAt(input, TokenStart)
    /\ last = StringLiteral(<<"\\">>)
    /\ pos = 3

\* The character of s at q (0-based) is no quote, no letter and no
\* underscore, and no spelling of the punctuator table is at q.
IsUnrecognizedAt(s, q) ==
    /\ q < Len(s)
    /\ s[q + 1] # "\""
    /\ ~IsWordStart(s[q + 1])
    /\ \A i \in 1..Len(kPunctuatorsInit) : ~IsAt(kPunctuatorsInit[i].str, s, q)

\* C24: a call that, after the skip, finds a character that is no quote, no
\* letter, no underscore and the start of no punctuator spelling (a digit,
\* '!' without '=', an apostrophe, '@', '$') returns the failure and leaves
\* the cursor at that character; the next call from there fails in the
\* same way, and so does every later call of the instance.
C24_UnrecognizedCharacter ==
    [][/\ (calls' = calls + 1
             /\ IsUnrecognizedAt(input, skip_comments_and_whitespace(input, pos))) =>
             /\ last' = Nullopt
             /\ pos' = skip_comments_and_whitespace(input, pos)
             /\ Tokenizer_tokenize(input, pos') = Result(Nullopt, pos')
       /\ (calls' = calls + 1 /\ calls > 0 /\ last = Nullopt
             /\ TokenStart = pos /\ IsUnrecognizedAt(input, pos)) =>
             (last' = Nullopt /\ pos' = pos)]_vars

\* a!=! : the third call failed at the second '!', and the fourth call
\* failed there again.
C24_Witness ==
    /\ mode = "Tokenizer"
    /\ input = <<"a", "!", "=", "!">>
    /\ calls = 4
    /\ IsUnrecognizedAt(input, prev)
    /\ prev = 3
    /\ pos = 3
    /\ last = Nullopt

\* The number of `load` keywords among the tokens toks.
LoadCount(toks) == Cardinality({i \in 1..Len(toks) : toks[i] = Keyword("Load")})

IsStringLiteral(t) == t.kind = "StringLiteral"

\* The values of the string literals among the tokens toks, in order.
StringValues(toks) ==
    LET strs == SelectSeq(toks, IsStringLiteral)
    IN  [i \in 1..Len(strs) |-> strs[i].value]

\* The module name and the symbol strings of every statement of prog, in
\* order.
ProgramStrings(prog) ==
    Flatten([k \in 1..Len(prog) |->
        <<prog[k].module_name>>
          \o [i \in 1..Len(prog[k].symbols) |-> prog[k].symbols[i][2]]])

\* C25: when parse returns a program, tokenize of the same text succeeds,
\* the program has as many statements as the tokens have `load` keywords,
\* and its module names and symbol strings are the values of the string
\* literals among the tokens, in the same order.
C25_ParserConsistent ==
    (mode = "parse" /\ pc = "done" /\ ret.kind = "value") =>
        LET t == TokenizeOf(input)
        IN  /\ t.kind = "value"
            /\ Len(ret.value) = LoadCount(t.value)
            /\ ProgramStrings(ret.value) = StringValues(t.value)

\* MaxStmts statements with a comment between the tokens were parsed, one
\* of them with an alias entry.
C25_Witness ==
    /\ mode = "parse"
    /\ pc = "done"
    /\ ret.kind = "value"
    /\ Len(ret.value) = MaxStmts
    /\ origin.family = "program"
    /\ origin.sep = Len(Separators)
    /\ \E i \in 1..Len(ret.value[MaxStmts].symbols) :
          ret.value[MaxStmts].symbols[i][1] # ret.value[MaxStmts].symbols[i][2]
    /\ LoadCount(TokenizeOf(input).value) = MaxStmts

\* C26: once a call of an instance has returned Eof, the cursor is at the
\* end of the text, and every later call of that instance returns Eof
\* again, neither a token nor the failure, and leaves the cursor where it
\* is.
C26_EofStable ==
    [][/\ (calls > 0 /\ last = Eof) =>
             /\ pos = Len(input)
             /\ Tokenizer_tokenize(input, pos) = Result(Eof, pos)
       /\ (calls > 0 /\ last = Eof /\ calls' = calls + 1) =>
             (last' = Eof /\ pos' = pos /\ prev' = pos)
       /\ (other.calls > 0 /\ other.last = Eof /\ other.calls' = other.calls + 1) =>
             (other.last' = Eof /\ other.pos' = other.pos)]_vars

\* An identifier, then Eof after a newline and a comment, then Eof again.
C26_Witness ==
    /\ mode = "Tokenizer"
    /\ input = <<"a", "\n", "#">>
    /\ calls = 3
    /\ last = Eof
    /\ prev = 3
    /\ pos = 3

\* No string literal among the tokens toks has a quote in its value.
NoQuoteInStrings(toks) ==
    \A i \in 1..Len(toks) : toks[i].kind = "StringLiteral" => ~HasQuote(toks[i].value)

\* C27: when tokenize returned a non-empty token sequence in which no
\* string literal holds a quote, tokenizing the rendering of the tokens,
\* joined by single spaces, succeeds and gives the same token sequence.
C27_RenderRoundTrip ==
    (mode = "tokenize" /\ out.by = "test" /\ NoQuoteInStrings(ret.value)) =>
        /\ ret.value # << >>
        /\ TokenizeOf(out.text) = ret

\* Tokens with a string literal that holds the comment sign, rendered to a
\* text other than the one they were read from.
C27_Witness ==
    /\ mode = "tokenize"
    /\ out.by = "test"
    /\ NoQuoteInStrings(ret.value)
    /\ Len(ret.value) >= 2
    /\ \E i \in 1..Len(ret.value) :
          /\ ret.value[i].kind = "StringLiteral"
          /\ \E k \in 1..Len(ret.value[i].value) : ret.value[i].value[k] = "#"
    /\ out.text # input
    /\ TokenizeOf(out.text) = ret

=============================================================================
